---- MODULE Spec2Model ----
(***************************************************************************)
(* stripJsonComments of src/index.js: a single left-to-right scan that     *)
(* removes // and block comments, and optionally trailing commas, from a   *)
(* JSON-like text.  A text is a sequence of one-character strings; the     *)
(* offsets index, offset and commaIndex are 0-based as in the source.      *)
(***************************************************************************)
EXTENDS Integers, Sequences, FiniteSets

\* ---------------------------------------------------------------- characters
SLASH == "/"
STAR == "*"
QUOTE == "\""
BACKSLASH == "\\"
LF == "\n"
CR == "\r"
TAB == "\t"
SPACE == " "
COMMA == ","
RBRACKET == "]"
RBRACE == "}"

\* jsonString[i] for an offset outside the text
Undefined == "undefined"

\* the values of isInsideComment
NoComment == "false"
singleComment == "singleComment"
multiComment == "multiComment"

\* ---------------------------------------------------------------- bounds and inputs
MaxLen == 3
MaxLexemes == 3
MaxEscLexemes == 4

Alphabet == {SLASH, STAR, QUOTE, BACKSLASH, LF, CR, COMMA, RBRACKET, TAB}

Lexemes ==
  { <<SLASH, SLASH>>, <<SLASH, STAR, STAR, SLASH>>, <<SLASH, STAR>>, <<STAR, SLASH>>,
    <<QUOTE>>, <<BACKSLASH>>, <<COMMA>>, <<RBRACE>>, <<CR, LF>>, <<SPACE>>, <<"a">> }

Words == UNION { [1..k -> Alphabet] : k \in 0..MaxLen }

RECURSIVE Concat(_)
Concat(ss) == IF ss = <<>> THEN <<>> ELSE Head(ss) \o Concat(Tail(ss))

Phrases == { Concat(p) : p \in UNION { [1..k -> Lexemes] : k \in 0..MaxLexemes } }

\* the concrete cases of the specification, section 8
Examples ==
  { <<"{", QUOTE, "a", QUOTE, ":", "1", SPACE, SLASH, SLASH, SPACE,
      "c", "o", "m", "m", "e", "n", "t", LF, RBRACE>>,
    <<SLASH, STAR, SPACE, "b", "l", "o", "c", "k", SPACE, STAR, SLASH, SPACE,
      "{", QUOTE, "a", QUOTE, ":", "1", RBRACE>>,
    <<"{", QUOTE, "u", "r", "l", QUOTE, ":", QUOTE, "h", "t", "t", "p", ":", SLASH, SLASH,
      "x", QUOTE, RBRACE>>,
    <<SLASH, SLASH, SPACE, "u", "n", "t", "e", "r", "m", "i", "n", "a", "t", "e", "d">>,
    <<"{", QUOTE, "a", QUOTE, ":", "1", COMMA, RBRACE>>,
    <<"{", QUOTE, "a", QUOTE, ":", "1", COMMA, SPACE, QUOTE, "b", QUOTE, ":", "2", RBRACE>> }

Inputs == Words \cup Phrases \cup Examples

\* texts in which a backslash, a quote and comments meet
EscLexemes ==
  { <<BACKSLASH>>, <<QUOTE>>, <<SLASH, STAR, STAR, SLASH>>, <<SLASH, SLASH>>, <<CR, LF>> }

EscPhrases == { Concat(p) : p \in UNION { [1..k -> EscLexemes] : k \in 0..MaxEscLexemes } }

TwiceInputs == Words \cup EscPhrases \cup Examples

\* two lexemes side by side
LexemePairs == { a \o b : a, b \in Lexemes }

LiveInputs == Words \cup LexemePairs \cup Examples

\* typeof jsonString
ArgTypes == {"string", "number", "undefined", "object"}

\* the second argument: omitted, null, or an object with both fields
OptionArgs ==
  { [kind |-> "undefined", whitespace |-> TRUE, trailingCommas |-> FALSE],
    [kind |-> "null", whitespace |-> TRUE, trailingCommas |-> FALSE] }
  \cup [kind : {"object"}, whitespace : BOOLEAN, trailingCommas : BOOLEAN]

\* ---------------------------------------------------------------- state
VARIABLES
  argType,          \* typeof jsonString
  jsonString,       \* the text argument
  options,          \* the options argument
  pc,               \* "call", "scan", "returned", "threw"
  index,            \* the loop cursor
  isInsideString,
  isInsideComment,
  offset,
  buffer,
  result,
  commaIndex,
  returned,         \* the value returned
  stripped,         \* history: the offsets of jsonString handed to strip()
  bufferSrc,        \* history: the offset in jsonString of each character of buffer
  cls,              \* history: per consumed offset, "S" when it was scanned with
                    \* isInsideString set (or is the closing quote), "L" or "B" when
                    \* it lies in the span of a single-line or block comment, else "N"
  pass,             \* 1 in the first call, 2 when the caller strips the result again
  firstText         \* history: the text given to the first call

vars == <<argType, jsonString, options, pc, index, isInsideString, isInsideComment,
          offset, buffer, result, commaIndex, returned, stripped, bufferSrc, cls, pass, firstText>>

\* ---------------------------------------------------------------- helpers
\* s[i] of JavaScript
CharAt(s, i) == IF i >= 0 /\ i < Len(s) THEN s[i + 1] ELSE Undefined

\* s.slice(a, b) of JavaScript, 0 <= a
Slice(s, a, b) == SubSeq(s, a + 1, IF b > Len(s) THEN Len(s) ELSE b)

\* the offsets a .. b-1 as a sequence
RECURSIVE Range(_, _)
Range(a, b) == IF a >= b THEN <<>> ELSE <<a>> \o Range(a + 1, b)

\* \s of a JavaScript regular expression, among the characters of the model
RegexWhitespace == {SPACE, TAB, LF, CR}

\* { whitespace = true, trailingCommas = false } = {}
whitespace == options.whitespace
trailingCommas == options.trailingCommas

stripWithoutWhitespace(string, start, end) == <<>>

\* variant: the last character of the span is dropped instead of blanked
stripWithWhitespace_Short(string, start, end) ==
  LET s == Slice(string, start, end - 1)
  IN  [i \in 1..Len(s) |-> IF s[i] \in RegexWhitespace THEN s[i] ELSE SPACE]

\* variant: /[^\n]/g in place of /\S/g
stripWithWhitespace_NonNewline(string, start, end) ==
  LET s == Slice(string, start, end)
  IN  [i \in 1..Len(s) |-> IF s[i] = LF THEN s[i] ELSE SPACE]

\* variant: /\s/g in place of /\S/g
stripWithWhitespace_LowerS(string, start, end) ==
  LET s == Slice(string, start, end)
  IN  [i \in 1..Len(s) |-> IF s[i] \in RegexWhitespace THEN SPACE ELSE s[i]]

stripWithWhitespace(string, start, end) ==
  LET s == Slice(string, start, end)
  IN  [i \in 1..Len(s) |-> IF s[i] \in RegexWhitespace THEN s[i] ELSE SPACE]

strip(string, start, end) ==
  IF whitespace THEN stripWithWhitespace(string, start, end)
  ELSE stripWithoutWhitespace(string, start, end)

\* history: the source offsets strip() leaves in its result
stripSrc(start, end) == IF whitespace THEN Range(start, end) ELSE <<>>

RECURSIVE CountBackslashes(_, _)
CountBackslashes(s, i) ==
  IF CharAt(s, i) = BACKSLASH THEN 1 + CountBackslashes(s, i - 1) ELSE 0

\* variant: only the character right before the quote is looked at
isEscaped_LastOnly(s, quotePosition) == CharAt(s, quotePosition - 1) = BACKSLASH

isEscaped(s, quotePosition) == CountBackslashes(s, quotePosition - 1) % 2 = 1

currentCharacter == CharAt(jsonString, index)
nextCharacter == CharAt(jsonString, index + 1)

\* variant: the test !isInsideComment of line 49 is missing
TogglesString_AnyState ==
  /\ currentCharacter = QUOTE
  /\ ~isEscaped(jsonString, index)

\* lines 49-55: isInsideString after the quote test of this step
TogglesString ==
  /\ isInsideComment = NoComment
  /\ currentCharacter = QUOTE
  /\ ~isEscaped(jsonString, index)

InsideStringNow == IF TogglesString THEN ~isInsideString ELSE isInsideString

\* variant: the continue of lines 57-59 is missing
SkipsRules_Never(inString) == FALSE

\* lines 57-59: if (isInsideString) continue
SkipsRules(inString) == inString

\* the region of the character at index when no comment delimiter is met
PlainClass ==
  IF InsideStringNow \/ (TogglesString /\ isInsideString) THEN "S"
  ELSE IF isInsideComment = singleComment THEN "L"
  ELSE IF isInsideComment = multiComment THEN "B"
  ELSE "N"

\* variant: index <= jsonString.length as the loop condition
InLoop_PastEnd == pc = "scan" /\ index <= Len(jsonString)

\* line 45: the loop condition
InLoop == pc = "scan" /\ index < Len(jsonString)

\* the else-if chain of lines 61-105, in order
AtEnterSingle ==
  /\ isInsideComment = NoComment
  /\ currentCharacter = SLASH /\ nextCharacter = SLASH
\* variant: a carriage return alone ends the comment
AtExitSingleCRLF_BareCR ==
  /\ isInsideComment = singleComment
  /\ currentCharacter = CR

AtExitSingleCRLF ==
  /\ isInsideComment = singleComment
  /\ currentCharacter = CR /\ nextCharacter = LF
AtExitSingleLF ==
  /\ isInsideComment = singleComment
  /\ currentCharacter = LF
AtEnterMulti ==
  /\ isInsideComment = NoComment
  /\ currentCharacter = SLASH /\ nextCharacter = STAR
\* variant: a star alone ends the comment
AtExitMulti_StarOnly ==
  /\ isInsideComment = multiComment
  /\ currentCharacter = STAR

AtExitMulti ==
  /\ isInsideComment = multiComment
  /\ currentCharacter = STAR /\ nextCharacter = SLASH
AtCommaRules ==
  /\ ~AtEnterSingle /\ ~AtExitSingleCRLF /\ ~AtExitSingleLF
  /\ ~AtEnterMulti /\ ~AtExitMulti
  /\ trailingCommas /\ isInsideComment = NoComment

IsClosing(c) == c = RBRACE \/ c = RBRACKET
\* variant: every character that is no closer keeps the comma pending
IsBlank_Any(c) == TRUE

\* lines 115-118
IsBlank(c) == c = SPACE \/ c = TAB \/ c = CR \/ c = LF

\* ---------------------------------------------------------------- actions
Start(texts) ==
  /\ argType \in ArgTypes
  /\ jsonString \in (IF argType = "string" THEN texts ELSE {<<>>})
  /\ options \in OptionArgs
  /\ pass = 1
  /\ firstText = jsonString
  /\ pc = "call"
  /\ index = 0
  /\ isInsideString = FALSE
  /\ isInsideComment = NoComment
  /\ offset = 0
  /\ buffer = <<>>
  /\ result = <<>>
  /\ commaIndex = -1
  /\ returned = <<>>
  /\ stripped = {}
  /\ bufferSrc = <<>>
  /\ cls = <<>>

Init == Start(Inputs)

InitTwice == Start(TwiceInputs)

InitLive == Start(LiveInputs)

\* lines 26-29: destructuring a null options argument throws a TypeError
ThrowDestructure ==
  /\ pc = "call"
  /\ options.kind = "null"
  /\ pc' = "threw"
  /\ UNCHANGED <<pass, firstText, argType, jsonString, options, index, isInsideString, isInsideComment,
                 offset, buffer, result, commaIndex, returned, stripped, bufferSrc, cls>>

\* lines 30-34: a jsonString that is no string throws a TypeError
Throw ==
  /\ pc = "call"
  /\ options.kind # "null"
  /\ argType # "string"
  /\ pc' = "threw"
  /\ UNCHANGED <<pass, firstText, argType, jsonString, options, index, isInsideString, isInsideComment,
                 offset, buffer, result, commaIndex, returned, stripped, bufferSrc, cls>>

\* lines 36-43
Begin ==
  /\ pc = "call"
  /\ options.kind # "null" /\ argType = "string"
  /\ pc' = "scan"
  /\ UNCHANGED <<pass, firstText, argType, jsonString, options, index, isInsideString, isInsideComment,
                 offset, buffer, result, commaIndex, returned, stripped, bufferSrc, cls>>

\* lines 57-59
ScanString ==
  /\ InLoop
  /\ SkipsRules(InsideStringNow)
  /\ isInsideString' = InsideStringNow
  /\ index' = index + 1
  /\ cls' = Append(cls, "S")
  /\ UNCHANGED <<pass, firstText, argType, jsonString, options, pc, isInsideComment, offset, buffer,
                 result, commaIndex, returned, stripped, bufferSrc>>

\* lines 61-66
EnterSingle ==
  /\ InLoop
  /\ ~SkipsRules(InsideStringNow)
  /\ AtEnterSingle
  /\ isInsideString' = InsideStringNow
  /\ buffer' = buffer \o Slice(jsonString, offset, index)
  /\ bufferSrc' = bufferSrc \o Range(offset, index)
  /\ offset' = index
  /\ isInsideComment' = singleComment
  /\ index' = index + 2
  /\ cls' = cls \o (IF InsideStringNow THEN <<"S", "S">> ELSE <<"L", "L">>)
  /\ UNCHANGED <<pass, firstText, argType, jsonString, options, pc, result, commaIndex, returned, stripped>>

\* lines 67-76
ExitSingleCRLF ==
  /\ InLoop
  /\ ~SkipsRules(InsideStringNow)
  /\ ~AtEnterSingle /\ AtExitSingleCRLF
  /\ isInsideString' = InsideStringNow
  /\ isInsideComment' = NoComment
  /\ buffer' = buffer \o strip(jsonString, offset, index + 1)
  /\ bufferSrc' = bufferSrc \o stripSrc(offset, index + 1)
  /\ stripped' = stripped \cup {i \in 0..index : i >= offset}
  /\ offset' = index + 1
  /\ index' = index + 2
  /\ cls' = cls \o <<"L", "N">>
  /\ UNCHANGED <<pass, firstText, argType, jsonString, options, pc, result, commaIndex, returned>>

\* lines 77-84
ExitSingleLF ==
  /\ InLoop
  /\ ~SkipsRules(InsideStringNow)
  /\ ~AtEnterSingle /\ ~AtExitSingleCRLF /\ AtExitSingleLF
  /\ isInsideString' = InsideStringNow
  /\ isInsideComment' = NoComment
  /\ buffer' = buffer \o strip(jsonString, offset, index)
  /\ bufferSrc' = bufferSrc \o stripSrc(offset, index)
  /\ stripped' = stripped \cup {i \in 0..(index - 1) : i >= offset}
  /\ offset' = index
  /\ index' = index + 1
  /\ cls' = Append(cls, "N")
  /\ UNCHANGED <<pass, firstText, argType, jsonString, options, pc, result, commaIndex, returned>>

\* lines 85-94
EnterMulti ==
  /\ InLoop
  /\ ~SkipsRules(InsideStringNow)
  /\ ~AtEnterSingle /\ ~AtExitSingleCRLF /\ ~AtExitSingleLF /\ AtEnterMulti
  /\ isInsideString' = InsideStringNow
  /\ buffer' = buffer \o Slice(jsonString, offset, index)
  /\ bufferSrc' = bufferSrc \o Range(offset, index)
  /\ offset' = index
  /\ isInsideComment' = multiComment
  /\ index' = index + 2
  /\ cls' = cls \o (IF InsideStringNow THEN <<"S", "S">> ELSE <<"B", "B">>)
  /\ UNCHANGED <<pass, firstText, argType, jsonString, options, pc, result, commaIndex, returned, stripped>>

\* lines 95-104
ExitMulti ==
  /\ InLoop
  /\ ~SkipsRules(InsideStringNow)
  /\ ~AtEnterSingle /\ ~AtExitSingleCRLF /\ ~AtExitSingleLF /\ ~AtEnterMulti
  /\ AtExitMulti
  /\ isInsideString' = InsideStringNow
  /\ isInsideComment' = NoComment
  /\ buffer' = buffer \o strip(jsonString, offset, index + 2)
  /\ bufferSrc' = bufferSrc \o stripSrc(offset, index + 2)
  /\ stripped' = stripped \cup {i \in 0..(index + 1) : i >= offset}
  /\ offset' = index + 2
  /\ index' = index + 2
  /\ cls' = cls \o <<"B", "B">>
  /\ UNCHANGED <<pass, firstText, argType, jsonString, options, pc, result, commaIndex, returned>>

\* variant: the whole buffered span goes through strip()
Confirmed_Whole(b) == strip(b, 0, Len(b))

\* line 110: strip(buffer, 0, 1) + buffer.slice(1)
Confirmed(b) == strip(b, 0, 1) \o Slice(b, 1, Len(b))

\* lines 106-113
StripTrailingComma ==
  /\ InLoop
  /\ ~SkipsRules(InsideStringNow)
  /\ AtCommaRules
  /\ commaIndex # -1
  /\ IsClosing(currentCharacter)
  /\ LET b == buffer \o Slice(jsonString, offset, index)
         s == bufferSrc \o Range(offset, index)
     IN  /\ result' = result \o Confirmed(b)
         /\ stripped' = IF s = <<>> THEN stripped ELSE stripped \cup {s[1]}
  /\ isInsideString' = InsideStringNow
  /\ buffer' = <<>>
  /\ bufferSrc' = <<>>
  /\ offset' = index
  /\ commaIndex' = -1
  /\ index' = index + 1
  /\ cls' = Append(cls, PlainClass)
  /\ UNCHANGED <<pass, firstText, argType, jsonString, options, pc, isInsideComment, returned>>

\* lines 114-124
CancelComma ==
  /\ InLoop
  /\ ~SkipsRules(InsideStringNow)
  /\ AtCommaRules
  /\ commaIndex # -1
  /\ ~IsClosing(currentCharacter)
  /\ ~IsBlank(currentCharacter)
  /\ isInsideString' = InsideStringNow
  /\ buffer' = buffer \o Slice(jsonString, offset, index)
  /\ bufferSrc' = bufferSrc \o Range(offset, index)
  /\ offset' = index
  /\ commaIndex' = -1
  /\ index' = index + 1
  /\ cls' = Append(cls, PlainClass)
  /\ UNCHANGED <<pass, firstText, argType, jsonString, options, pc, isInsideComment, result, returned,
                 stripped>>

\* variant: the comma is recorded but what precedes it stays in the buffer
RecordComma_NoFlush ==
  /\ InLoop
  /\ ~SkipsRules(InsideStringNow)
  /\ AtCommaRules
  /\ commaIndex = -1
  /\ currentCharacter = COMMA
  /\ isInsideString' = InsideStringNow
  /\ buffer' = buffer \o Slice(jsonString, offset, index)
  /\ bufferSrc' = bufferSrc \o Range(offset, index)
  /\ offset' = index
  /\ commaIndex' = index
  /\ index' = index + 1
  /\ cls' = Append(cls, PlainClass)
  /\ UNCHANGED <<pass, firstText, argType, jsonString, options, pc, isInsideComment, result, returned,
                 stripped>>

\* lines 125-131
RecordComma ==
  /\ InLoop
  /\ ~SkipsRules(InsideStringNow)
  /\ AtCommaRules
  /\ commaIndex = -1
  /\ currentCharacter = COMMA
  /\ isInsideString' = InsideStringNow
  /\ result' = result \o buffer \o Slice(jsonString, offset, index)
  /\ buffer' = <<>>
  /\ bufferSrc' = <<>>
  /\ offset' = index
  /\ commaIndex' = index
  /\ index' = index + 1
  /\ cls' = Append(cls, PlainClass)
  /\ UNCHANGED <<pass, firstText, argType, jsonString, options, pc, isInsideComment, returned, stripped>>

\* a step on which no rule of the chain applies: only the cursor moves
Advance ==
  /\ InLoop
  /\ ~SkipsRules(InsideStringNow)
  /\ ~AtEnterSingle /\ ~AtExitSingleCRLF /\ ~AtExitSingleLF
  /\ ~AtEnterMulti /\ ~AtExitMulti
  /\ AtCommaRules =>
       IF commaIndex # -1 THEN IsBlank(currentCharacter) ELSE currentCharacter # COMMA
  /\ isInsideString' = InsideStringNow
  /\ index' = index + 1
  /\ cls' = Append(cls, PlainClass)
  /\ UNCHANGED <<pass, firstText, argType, jsonString, options, pc, isInsideComment, offset, buffer,
                 result, commaIndex, returned, stripped, bufferSrc>>

\* variant: the buffer is left out of the returned text
ReturnValue_NoBuffer ==
  result \o
    (IF isInsideComment # NoComment
       THEN strip(Slice(jsonString, offset, Len(jsonString)), 0, Len(jsonString) - offset)
       ELSE Slice(jsonString, offset, Len(jsonString)))

\* variant: the tail of an open comment is returned as it is
ReturnValue_Verbatim == result \o buffer \o Slice(jsonString, offset, Len(jsonString))

\* lines 135-141: the returned text
ReturnValue ==
  result \o buffer \o
    (IF isInsideComment # NoComment
       THEN strip(Slice(jsonString, offset, Len(jsonString)), 0, Len(jsonString) - offset)
       ELSE Slice(jsonString, offset, Len(jsonString)))

\* lines 135-141
Return ==
  /\ pc = "scan"
  /\ index >= Len(jsonString)
  /\ pc' = "returned"
  /\ returned' = ReturnValue
  /\ stripped' = IF isInsideComment # NoComment
                   THEN stripped \cup {i \in 0..(Len(jsonString) - 1) : i >= offset}
                   ELSE stripped
  /\ UNCHANGED <<pass, firstText, argType, jsonString, options, index, isInsideString, isInsideComment,
                 offset, buffer, result, commaIndex, bufferSrc, cls>>

\* the caller strips the returned text again, with the same options
Restrip ==
  /\ pc = "returned"
  /\ pass = 1
  /\ pass' = 2
  /\ jsonString' = returned
  /\ pc' = "call"
  /\ index' = 0
  /\ isInsideString' = FALSE
  /\ isInsideComment' = NoComment
  /\ offset' = 0
  /\ buffer' = <<>>
  /\ result' = <<>>
  /\ commaIndex' = -1
  /\ returned' = <<>>
  /\ stripped' = {}
  /\ bufferSrc' = <<>>
  /\ cls' = <<>>
  /\ UNCHANGED <<argType, options, firstText>>

Next ==
  \/ ThrowDestructure
  \/ Throw
  \/ Begin
  \/ ScanString
  \/ EnterSingle
  \/ ExitSingleCRLF
  \/ ExitSingleLF
  \/ EnterMulti
  \/ ExitMulti
  \/ StripTrailingComma
  \/ CancelComma
  \/ RecordComma
  \/ Advance
  \/ Return

Spec == Init /\ [][Next]_vars

NextTwice == Next \/ Restrip

SpecTwice == InitTwice /\ [][NextTwice]_vars

\* the call runs to its end: the function is synchronous and nothing suspends it
SpecLive == InitLive /\ [][Next]_vars /\ WF_vars(Next)

TypeOK ==
  /\ pc \in {"call", "scan", "returned", "threw"}
  /\ index \in 0..(Len(jsonString) + 1)
  /\ offset \in 0..Len(jsonString)
  /\ isInsideString \in BOOLEAN
  /\ isInsideComment \in {NoComment, singleComment, multiComment}
  /\ commaIndex \in -1..(Len(jsonString) - 1)
  /\ Len(buffer) = Len(bufferSrc)
  /\ pc = "scan" => Len(cls) = index
  /\ pc = "returned" => Len(cls) = Len(jsonString)
  /\ pass \in {1, 2}

\* ---------------------------------------------------------------- vocabulary of the claims
Done == pc = "returned"

Offsets == 0..(Len(jsonString) - 1)

ClassAt(i) == IF i >= 0 /\ i < Len(cls) THEN cls[i + 1] ELSE "none"

InComment(i) == ClassAt(i) \in {"L", "B"}

\* where the character at offset i of the input stands in the returned text
OutPos(i) == IF whitespace THEN i ELSE i - Cardinality({j \in stripped : j < i})

\* the character at offset i is in the returned text, unchanged and at its place
Verbatim(i) ==
  /\ whitespace \/ i \notin stripped
  /\ CharAt(returned, OutPos(i)) = CharAt(jsonString, i)

\* the character at offset i went through no strip() and is in the returned text
Kept(i) == i \notin stripped /\ Verbatim(i)

\* the whitespace of JSON
IsWhitespaceChar(c) == c \in {SPACE, TAB, LF, CR}

IsCloser(c) == c \in {RBRACE, RBRACKET}

\* the first character after offset i that is neither whitespace nor in a comment
SignificantAfter(i) ==
  {j \in Offsets : j > i /\ ~InComment(j) /\ ~IsWhitespaceChar(CharAt(jsonString, j))}

NextSignificant(i) ==
  IF SignificantAfter(i) = {} THEN Undefined
  ELSE CharAt(jsonString, CHOOSE j \in SignificantAfter(i) : \A k \in SignificantAfter(i) : j <= k)

\* a single-line comment is open just before offset t, where a terminator stands
LineCommentEndsAt(t) ==
  /\ ClassAt(t - 1) = "L"
  /\ \/ CharAt(jsonString, t) = LF
     \/ CharAt(jsonString, t) = CR /\ CharAt(jsonString, t + 1) = LF

Terminator(t) == IF CharAt(jsonString, t) = LF THEN {t} ELSE {t, t + 1}

\* C1: every character of a string literal (an offset scanned while isInsideString
\* is set, and the closing quote) is in the returned text unchanged, whatever the
\* options; no comment is open and no comma is recorded inside a literal.
C1_StringSafety ==
  /\ pc = "scan" /\ isInsideString => isInsideComment = NoComment
  /\ pc = "scan" /\ commaIndex # -1 => ClassAt(commaIndex) = "N"
  /\ Done => \A i \in Offsets : ClassAt(i) = "S" => Kept(i)

\* a closed literal holding a comment opener or a comma has been returned
C1_Witness ==
  /\ Done
  /\ \E a, b \in Offsets :
        /\ a + 2 < b
        /\ CharAt(jsonString, a) = QUOTE /\ CharAt(jsonString, b) = QUOTE
        /\ \A i \in a..b : ClassAt(i) = "S"
        /\ ClassAt(b + 1) # "S"
        /\ CharAt(jsonString, a + 1) = SLASH
        /\ CharAt(jsonString, a + 2) \in {SLASH, STAR}

\* C2: with whitespace preserved the returned text is as long as the input, and
\* every character that went through no strip() is at its own offset.
C2_LengthInvariant ==
  Done /\ whitespace =>
    /\ Len(returned) = Len(jsonString)
    /\ \A i \in Offsets : i \notin stripped => CharAt(returned, i) = CharAt(jsonString, i)

\* a comment was blanked and a character after it survived
C2_Witness ==
  /\ Done /\ whitespace /\ ~trailingCommas
  /\ \E i, j \in Offsets : i < j /\ i \in stripped /\ InComment(i) /\ j \notin stripped

C4_AsStated ==
  Done => \A t \in Offsets : LineCommentEndsAt(t) => \A u \in Terminator(t) : Verbatim(u)

\* C5 as stated: with trailingCommas every comma outside strings and comments whose
\* next significant character is a closer is removed from the returned text.
C5_AsStated ==
  Done /\ trailingCommas =>
    \A i \in Offsets :
      /\ CharAt(jsonString, i) = COMMA
      /\ ClassAt(i) = "N"
      /\ IsCloser(NextSignificant(i))
      => /\ i \in stripped
         /\ whitespace => CharAt(returned, i) = SPACE

\* C6: a comma that is not trailing is in the returned text unchanged at its place:
\* with trailingCommas, a comma outside strings and comments whose next significant
\* character is no closer (or is missing); without, every comma outside a comment.
C6_OtherCommasKept ==
  Done =>
    \A i \in Offsets :
      /\ CharAt(jsonString, i) = COMMA
      /\ \/ trailingCommas /\ ClassAt(i) = "N" /\ ~IsCloser(NextSignificant(i))
         \/ ~trailingCommas /\ ~InComment(i)
      => Kept(i)

\* with trailingCommas, a comma was followed by a character that is no closer, and
\* a closer came later
C6_Witness ==
  /\ Done /\ trailingCommas
  /\ \E i, j \in Offsets :
        /\ i < j
        /\ CharAt(jsonString, i) = COMMA /\ ClassAt(i) = "N"
        /\ NextSignificant(i) \notin {RBRACE, RBRACKET, Undefined}
        /\ IsCloser(CharAt(jsonString, j)) /\ ClassAt(j) = "N"

\* C7: under the default options (whitespace kept, commas kept) stripping the
\* returned text again returns it unchanged, and the second call never is inside
\* a comment.
C7_IdempotentDefault ==
  pass = 2 /\ whitespace /\ ~trailingCommas =>
    /\ isInsideComment = NoComment
    /\ stripped = {}
    /\ Done => returned = jsonString

\* the second call has returned, on a text the first call had changed
C7_Witness ==
  /\ pass = 2 /\ Done
  /\ whitespace /\ ~trailingCommas
  /\ firstText # jsonString
  /\ \E i \in Offsets : CharAt(jsonString, i) = QUOTE

\* C8 as stated: with whitespace=false stripping the returned text again, with the
\* same options, returns it unchanged.
C8_AsStated == pass = 2 /\ Done /\ ~whitespace => returned = jsonString

\* C9: when the input ends inside a comment, offset is the comment's opening
\* delimiter, every character from there on goes through strip() (blanked, or
\* deleted so that nothing of it is returned), what precedes is returned as
\* usual, and the call returns.
C9_UnterminatedComment ==
  Done /\ isInsideComment # NoComment =>
    /\ CharAt(jsonString, offset) = SLASH
    /\ CharAt(jsonString, offset + 1) = (IF isInsideComment = singleComment THEN SLASH ELSE STAR)
    /\ \A i \in Offsets : i >= offset =>
          /\ i \in stripped
          /\ whitespace =>
                CharAt(returned, i) = (IF IsWhitespaceChar(CharAt(jsonString, i))
                                         THEN CharAt(jsonString, i) ELSE SPACE)
    /\ ~whitespace => Len(returned) = OutPos(offset)
    /\ \A i \in Offsets : i < offset /\ i \notin stripped => Verbatim(i)

\* the input ended inside a comment that has text before it and text in it
C9_Witness ==
  /\ Done /\ isInsideComment # NoComment
  /\ offset > 0 /\ offset + 2 < Len(jsonString)
  /\ \E i \in Offsets : i < offset /\ i \notin stripped

\* C10 as stated: an input that is no text throws before any scanning and nothing
\* is returned, and a text input never throws, whatever the options value.
C10_AsStated ==
  /\ argType # "string" => pc \in {"call", "threw"} /\ index = 0 /\ returned = <<>>
  /\ argType = "string" => pc # "threw"

\* C11: for a text input and every option combination the scan terminates: the
\* cursor stays within the text, every step of the loop moves it forward by one
\* or two characters, and the call returns.
C11_Terminates ==
  /\ [](pc = "scan" => index <= Len(jsonString))
  /\ [][pc = "scan" /\ pc' = "scan" => index' \in {index + 1, index + 2}]_vars
  /\ (pc = "scan") ~> (pc = "returned")

\* a call has returned on a text that ends inside a string or a comment, after a
\* step of two characters
C11_Witness ==
  /\ Done
  /\ Len(jsonString) >= 3
  /\ isInsideString \/ isInsideComment # NoComment
  /\ \E i \in Offsets : InComment(i)

\* the first concrete case of the specification, section 8
CommentExample ==
  <<"{", QUOTE, "a", QUOTE, ":", "1", SPACE, SLASH, SLASH, SPACE,
    "c", "o", "m", "m", "e", "n", "t", LF, RBRACE>>

Spaces(n) == [i \in 1..n |-> SPACE]

\* C12 as stated: under the default options the first concrete case returns
\* {"a":1, then 8 spaces, then a newline, then }.
C12_AsStated ==
  Done /\ jsonString = CommentExample /\ whitespace /\ ~trailingCommas =>
    returned = <<"{", QUOTE, "a", QUOTE, ":", "1">> \o Spaces(8) \o <<LF, RBRACE>>

\* C12 amended: under the default options the first concrete case returns
\* {"a":1, then 11 spaces (the space before the comment and one for each of the
\* 10 characters of the comment), then a newline, then }.
C12_CommentExample ==
  Done /\ jsonString = CommentExample /\ whitespace /\ ~trailingCommas =>
    returned = <<"{", QUOTE, "a", QUOTE, ":", "1">> \o Spaces(11) \o <<LF, RBRACE>>

\* the first concrete case has been stripped with the options omitted
C12_Witness ==
  /\ Done /\ jsonString = CommentExample
  /\ options.kind = "undefined"
  /\ stripped = 7..16

\* C13: at every scan position exactly one of Normal, InString, InLineComment and
\* InBlockComment holds: isInsideString and isInsideComment are never both set.
C13_OneMode ==
  /\ isInsideString \in BOOLEAN
  /\ isInsideComment \in {NoComment, singleComment, multiComment}
  /\ ~(isInsideString /\ isInsideComment # NoComment)

\* inside a string, the scan stands on a comment opener
C13_Witness ==
  /\ pc = "scan" /\ isInsideString /\ isInsideComment = NoComment
  /\ currentCharacter = SLASH /\ nextCharacter \in {SLASH, STAR}

\* the number of consecutive backslashes right before offset i of s
BackslashRun(s, i) ==
  CHOOSE k \in 0..i :
    /\ \A j \in (i - k)..(i - 1) : CharAt(s, j) = BACKSLASH
    /\ CharAt(s, i - k - 1) # BACKSLASH

\* C14: a quote met while no comment is open toggles isInsideString if and only
\* if the number of consecutive backslashes right before it is even.
C14_EscapeParity ==
  [][pc = "scan" /\ currentCharacter = QUOTE /\ isInsideComment = NoComment =>
       ((isInsideString' # isInsideString) <=> (BackslashRun(jsonString, index) % 2 = 0))]_vars

\* a quote after two backslashes has opened a string
C14_Witness ==
  /\ pc = "scan" /\ isInsideString /\ index >= 3
  /\ CharAt(jsonString, index - 1) = QUOTE
  /\ CharAt(jsonString, index - 2) = BACKSLASH
  /\ CharAt(jsonString, index - 3) = BACKSLASH
  /\ ClassAt(index - 1) = "S" /\ ClassAt(index - 2) = "N"

\* C15: a quote inside a comment never changes the string state: isInsideString
\* is not set while a comment is open, nor after the step that consumed a
\* character of a comment, its last one included.
C15_QuotesInertInComments ==
  pc = "scan" =>
    /\ isInsideComment # NoComment => ~isInsideString
    /\ index > 0 /\ InComment(index - 1) => ~isInsideString

\* a comment that holds a quote has ended and the scan goes on
C15_Witness ==
  /\ pc = "scan" /\ isInsideComment = NoComment /\ ~isInsideString
  /\ \E i \in 0..(index - 1) : InComment(i) /\ CharAt(jsonString, i) = QUOTE

\* the two characters at offsets i and i + 1 of the input are a and b
PairAt(i, a, b) == CharAt(jsonString, i) = a /\ CharAt(jsonString, i + 1) = b

\* C16: block comments do not nest. While a block comment is open, offset is the
\* slash of its opener, the cursor is past the opener and no star-slash pair
\* starts between the opener and the cursor; a step inside the comment closes
\* it exactly when the cursor stands on a star-slash pair, and then the span
\* from the opening slash through the closing slash is removed and the cursor
\* moves right after it in Normal state.
C16_BlockCommentsDoNotNest ==
  /\ [](pc = "scan" /\ isInsideComment = multiComment =>
          /\ PairAt(offset, SLASH, STAR)
          /\ index >= offset + 2
          /\ \A j \in (offset + 2)..(index - 1) : ~PairAt(j, STAR, SLASH))
  /\ [][pc = "scan" /\ isInsideComment = multiComment /\ index < Len(jsonString) =>
          IF PairAt(index, STAR, SLASH)
            THEN /\ isInsideComment' = NoComment /\ ~isInsideString'
                 /\ stripped' = stripped \cup (offset..(index + 1))
                 /\ index' = index + 2 /\ offset' = index + 2
            ELSE /\ isInsideComment' = multiComment /\ ~isInsideString'
                 /\ stripped' = stripped /\ offset' = offset]_vars

\* a block comment that holds a second opener right after its own has closed
C16_Witness ==
  /\ pc = "scan" /\ isInsideComment = NoComment /\ ~isInsideString
  /\ index >= 6
  /\ Slice(jsonString, index - 6, index) = <<SLASH, STAR, SLASH, STAR, STAR, SLASH>>
  /\ offset = index
  /\ \A i \in (index - 6)..(index - 1) : i \in stripped /\ ClassAt(i) = "B"

\* C17: a single-line comment stays open until the first line feed, carriage
\* return plus line feed, or the end of the input: no other character in it
\* changes the comment state, the string state or the pending comma, and at the
\* end of the input the comment is still open when the call returns.
C17_LineCommentStays ==
  /\ [](pc = "scan" /\ isInsideComment = singleComment =>
          /\ PairAt(offset, SLASH, SLASH)
          /\ index >= offset + 2
          /\ ~isInsideString
          /\ \A j \in (offset + 2)..(index - 1) : CharAt(jsonString, j) # LF)
  /\ [][pc = "scan" /\ isInsideComment = singleComment =>
          IF index >= Len(jsonString)
            THEN pc' = "returned" /\ isInsideComment' = singleComment
            ELSE IF currentCharacter = LF \/ PairAt(index, CR, LF)
              THEN isInsideComment' = NoComment /\ ~isInsideString'
              ELSE /\ isInsideComment' = singleComment /\ ~isInsideString'
                   /\ commaIndex' = commaIndex /\ offset' = offset
                   /\ stripped' = stripped /\ index' = index + 1]_vars

\* a block opener and a quote have been passed inside a single-line comment
C17_Witness ==
  /\ pc = "scan" /\ isInsideComment = singleComment
  /\ \E i, j \in (offset + 2)..(index - 1) :
       /\ i + 1 <= index - 1 /\ PairAt(i, SLASH, STAR)
       /\ CharAt(jsonString, j) = QUOTE

\* the text t with the character at offset p replaced by the text r
Replaced(t, p, r) == Slice(t, 0, p) \o r \o Slice(t, p + 1, Len(t))

\* what has been emitted so far, had nothing been stripped at this step
EmittedSoFar == result \o buffer \o Slice(jsonString, offset, index)

\* C18: confirming a trailing comma changes exactly one character. The step that
\* meets a closer while a comma is pending leaves in result what would have been
\* emitted with the comma kept, but for the comma's own position: one space there
\* with whitespace kept, nothing otherwise; the bracket is not consumed by the
\* step. In the returned text every character that is in no comment and is no
\* confirmed comma is unchanged at its place, and with whitespace kept the
\* length is the input's.
C18_ConfirmChangesOneCharacter ==
  /\ [][/\ pc = "scan" /\ trailingCommas /\ commaIndex # -1
        /\ isInsideComment = NoComment /\ ~isInsideString
        /\ IsCloser(currentCharacter)
        => /\ CharAt(EmittedSoFar, Len(result)) = COMMA
           /\ result' = Replaced(EmittedSoFar, Len(result),
                                 IF whitespace THEN <<SPACE>> ELSE <<>>)
           /\ buffer' = <<>> /\ offset' = index
           /\ stripped' = stripped \cup {commaIndex}
           /\ commaIndex' = -1]_vars
  /\ [](Done =>
          /\ \A i \in Offsets : i \notin stripped => Kept(i)
          /\ \A i \in stripped : ~InComment(i) =>
                /\ CharAt(jsonString, i) = COMMA /\ trailingCommas
                /\ IsCloser(NextSignificant(i))
                /\ whitespace => CharAt(returned, i) = SPACE
          /\ whitespace => Len(returned) = Len(jsonString)
          /\ ~whitespace => Len(returned) = Len(jsonString) - Cardinality(stripped))

\* a comma, then a tab and a comment, then a closer: the comma went, the rest stayed
C18_Witness ==
  /\ Done /\ trailingCommas
  /\ \E i, j, k \in Offsets :
       /\ i < j /\ j < k
       /\ CharAt(jsonString, i) = COMMA /\ i \in stripped /\ ~InComment(i)
       /\ IsWhitespaceChar(CharAt(jsonString, j)) /\ Kept(j)
       /\ IsCloser(CharAt(jsonString, k)) /\ Kept(k)
       /\ \A m \in (i + 1)..(k - 1) : InComment(m) \/ IsWhitespaceChar(CharAt(jsonString, m))

\* C19: whenever a comma is pending at the start of a loop step, the input has a
\* comma at commaIndex, commaIndex is before the cursor, the text buffer ++
\* input[offset .. index) begins with that very comma, and result ends just
\* before it.
C19_PendingCommaLeadsBuffer ==
  pc = "scan" /\ commaIndex # -1 =>
    /\ CharAt(jsonString, commaIndex) = COMMA
    /\ commaIndex >= 0 /\ commaIndex < index
    /\ CharAt(buffer \o Slice(jsonString, offset, index), 0) = COMMA
    /\ CharAt(bufferSrc \o Range(offset, index), 0) = commaIndex
    /\ Len(result) = OutPos(commaIndex)

\* a comma that is not the first character is pending and a comment after it
\* has been buffered
C19_Witness ==
  /\ pc = "scan" /\ commaIndex > 0 /\ index > commaIndex + 1
  /\ Len(buffer) > 1 /\ result # <<>>
  /\ \E i \in (commaIndex + 1)..(index - 1) : InComment(i) /\ i \in stripped

\* result and buffer side by side: what the accumulators hold
Accumulated == result \o buffer

\* C20: at the start of every loop step offset <= index, and offset never
\* decreases. The accumulators hold the input before offset exactly once: with
\* whitespace kept length(result) + length(buffer) = offset (without, the
\* offsets handed to strip() are missing), every offset before offset that went
\* through no strip() has its character at its place, and nothing at or after
\* offset has been emitted. The returned text result + buffer + tail therefore
\* neither duplicates nor drops an input position.
C20_OffsetAccounting ==
  /\ [](pc = "scan" =>
          /\ 0 <= offset /\ offset <= index
          /\ whitespace => Len(result) + Len(buffer) = offset
          /\ Len(Accumulated) = OutPos(offset)
          /\ stripped \subseteq 0..(offset - 1)
          /\ \A i \in 0..(offset - 1) :
                i \notin stripped => CharAt(Accumulated, OutPos(i)) = CharAt(jsonString, i))
  /\ [][pc = "scan" => offset' >= offset]_vars
  /\ [](Done =>
          /\ Len(returned) = OutPos(Len(jsonString))
          /\ whitespace => Len(returned) = Len(jsonString)
          /\ \A i \in Offsets : i \notin stripped => Verbatim(i))

\* with whitespace kept, result and buffer both hold text and the cursor is
\* ahead of offset
C20_Witness ==
  /\ pc = "scan" /\ whitespace
  /\ result # <<>> /\ buffer # <<>>
  /\ 0 < offset /\ offset < index
====
